---- MODULE Spec2Model ----
(***************************************************************************)
(* SnowfallCanvas (src/src/index.ts): the render loop and its scheduling   *)
(* with the host, the visibility and resize watchers, the density model    *)
(* (getDensityAdjustedCount / getTargetDpr) and the adaptive performance   *)
(* controller (maybeAdjustPerformance).                                    *)
(*                                                                         *)
(* Numbers.  Pixel ratios are kept in eighths (8 = 1.0, 10 = 1.25), all of *)
(* which are exact binary64 values, so Math.min / Math.max / < on them are *)
(* exact.  The density estimate is computed in IEEE-754 binary64 exactly   *)
(* as the source evaluates it, operation by operation, round-to-nearest-   *)
(* even: see the Float* operators.  frameTimeAvg is kept in fixed point,   *)
(* AvgUnitsPerMs units per millisecond, rounded to nearest at each update. *)
(***************************************************************************)
EXTENDS Integers, Sequences, FiniteSets, TLC

(***************************************************************************)
(* IEEE-754 binary64 arithmetic on non-negative values.                    *)
(* A natural number is held as WideLimbs limbs of LimbBits bits, least     *)
(* significant first; a float is [m |-> limbs, e |-> exponent], value      *)
(* m * 2^e, with m < 2^SignificandBits after every rounding.               *)
(***************************************************************************)
LimbBits == 10
LimbBase == 2 ^ LimbBits
WideLimbs == 12
SignificandBits == 53

Limb(a, i) == IF i \in 1..WideLimbs THEN a[i] ELSE 0

\* n < 2^31 as limbs
NatLimbs(n) ==
    [i \in 1..WideLimbs |->
        IF i = 1 THEN n % LimbBase
        ELSE IF i = 2 THEN (n \div LimbBase) % LimbBase
        ELSE IF i = 3 THEN (n \div LimbBase ^ 2) % LimbBase
        ELSE IF i = 4 THEN n \div LimbBase ^ 3
        ELSE 0]

\* the value of limbs that hold a number below 2^31 (TLC reports an overflow otherwise)
LimbsNat(a) ==
    IF \E i \in 5..WideLimbs : a[i] # 0 THEN 2 ^ 31
    ELSE a[1] + LimbBase * (a[2] + LimbBase * (a[3] + LimbBase * a[4]))

\* column sums to limbs: propagate the carries upwards
CarryLimbs(c) ==
    LET t1  == c[1]
        t2  == c[2] + t1 \div LimbBase
        t3  == c[3] + t2 \div LimbBase
        t4  == c[4] + t3 \div LimbBase
        t5  == c[5] + t4 \div LimbBase
        t6  == c[6] + t5 \div LimbBase
        t7  == c[7] + t6 \div LimbBase
        t8  == c[8] + t7 \div LimbBase
        t9  == c[9] + t8 \div LimbBase
        t10 == c[10] + t9 \div LimbBase
        t11 == c[11] + t10 \div LimbBase
        t12 == c[12] + t11 \div LimbBase
    IN  <<t1 % LimbBase, t2 % LimbBase, t3 % LimbBase, t4 % LimbBase,
          t5 % LimbBase, t6 % LimbBase, t7 % LimbBase, t8 % LimbBase,
          t9 % LimbBase, t10 % LimbBase, t11 % LimbBase, t12 % LimbBase>>

\* the exact product of two significands (each below 2^60)
LimbsMul(a, b) ==
    CarryLimbs([n \in 1..WideLimbs |->
        Limb(a, 1) * Limb(b, n) + Limb(a, 2) * Limb(b, n - 1)
          + Limb(a, 3) * Limb(b, n - 2) + Limb(a, 4) * Limb(b, n - 3)
          + Limb(a, 5) * Limb(b, n - 4) + Limb(a, 6) * Limb(b, n - 5)])

LimbsInc(a) ==
    [i \in 1..WideLimbs |->
        IF \A j \in 1..(i - 1) : a[j] = LimbBase - 1
        THEN (a[i] + 1) % LimbBase ELSE a[i]]

BitLen(x) == Cardinality({k \in 0..LimbBits : 2 ^ k <= x})

LimbsBitLen(a) ==
    IF \A i \in 1..WideLimbs : a[i] = 0 THEN 0
    ELSE LET top == CHOOSE i \in 1..WideLimbs :
                        a[i] # 0 /\ \A j \in (i + 1)..WideLimbs : a[j] = 0
         IN  LimbBits * (top - 1) + BitLen(a[top])

LimbsBit(a, i) == (Limb(a, i \div LimbBits + 1) \div 2 ^ (i % LimbBits)) % 2

\* whether a mod 2^n is non-zero
LimbsLowNonzero(a, n) ==
    \/ \E i \in 1..WideLimbs : i <= n \div LimbBits /\ a[i] # 0
    \/ Limb(a, n \div LimbBits + 1) % 2 ^ (n % LimbBits) # 0

\* floor(a / 2^s)
LimbsShr(a, s) ==
    LET ls == s \div LimbBits
        bs == s % LimbBits
    IN  [i \in 1..WideLimbs |->
            Limb(a, i + ls) \div 2 ^ bs
              + (Limb(a, i + ls + 1) % 2 ^ bs) * 2 ^ (LimbBits - bs)]

\* n (with `sticky`: a non-zero part below its last bit) rounded to
\* SignificandBits bits, ties to even: the result is m * 2^sh
RoundNearestEven(n, sticky) ==
    LET len == LimbsBitLen(n)
    IN  IF len <= SignificandBits THEN [m |-> n, sh |-> 0]
        ELSE LET s  == len - SignificandBits
                 q  == LimbsShr(n, s)
                 up == /\ LimbsBit(n, s - 1) = 1
                       /\ (sticky \/ LimbsLowNonzero(n, s - 1) \/ LimbsBit(q, 0) = 1)
             IN  [m |-> IF up THEN LimbsInc(q) ELSE q, sh |-> s]

FloatOfNat(n) == [m |-> NatLimbs(n), e |-> 0]

\* x * y
FloatMul(x, y) ==
    LET r == RoundNearestEven(LimbsMul(x.m, y.m), FALSE)
    IN  [m |-> r.m, e |-> x.e + y.e + r.sh]

\* n / d for naturals n and 0 < d < 2^21 with n / d >= 2^-26: eight limbs of
\* the quotient's fraction by long division, then one rounding
FloatDivNat(n, d) ==
    LET t1 == (n % d) * LimbBase
        t2 == (t1 % d) * LimbBase
        t3 == (t2 % d) * LimbBase
        t4 == (t3 % d) * LimbBase
        t5 == (t4 % d) * LimbBase
        t6 == (t5 % d) * LimbBase
        t7 == (t6 % d) * LimbBase
        t8 == (t7 % d) * LimbBase
        ip == NatLimbs(n \div d)
        q  == <<t8 \div d, t7 \div d, t6 \div d, t5 \div d, t4 \div d, t3 \div d,
                t2 \div d, t1 \div d, ip[1], ip[2], ip[3], ip[4]>>
        r  == RoundNearestEven(q, t8 % d # 0)
    IN  [m |-> r.m, e |-> r.sh - 8 * LimbBits]

\* Math.floor(x), x >= 0
FloatFloor(x) ==
    IF x.e >= 0 THEN LimbsNat(x.m) * 2 ^ x.e
    ELSE LimbsNat(LimbsShr(x.m, 0 - x.e))

BASE_WIDTH == 1920
BASE_HEIGHT == 1080
PERF_COOLDOWN == 90
SLOW_FRAME_MS == 22
MIN_REDUCED_COUNT == 200
SEED_FRAME_MS == 16

\* null (rafId, dprOverride) and an omitted optional argument (nextCount)
Null == -1
Undefined == -2

Min(p, q) == IF p <= q THEN p ELSE q
Max(p, q) == IF p >= q THEN p ELSE q

(***************************************************************************)
(* Bounds of the model.                                                    *)
(***************************************************************************)
\* handles the host hands out for pending loop callbacks (a handle is reused
\* only when it is neither pending nor held in rafId)
MaxRaf == 3
\* resolution of frameTimeAvg: units per millisecond
AvgUnitsPerMs == 1

RafIds == 1..MaxRaf

VARIABLES
    running, rafId, width, height, dpr,
    resizeObserver, fallbackResizeAttached, resizeQueued, container,
    particleCount, particleCountHalf, arrayLen,
    visibilityHandlerAttached, autoPausedByVisibility,
    frameTimeAvg, perfCooldownFrames, dprOverride, config,
    \* performance.now() - this.lastTime, in milliseconds
    sinceLastTime,
    \* the host
    rafLoop, rafResize, visibilityState, devicePixelRatio, clientSize,
    \* history
    lastOp, stoppedBy, halted, probe,
    \* one particle of the store
    sample,
    \* history: the long frames so far (at most two are counted), the count
    \* the controller last reduced to, whether destroy() was the last public
    \* call
    longFrames, reducedTo, destroyed

vars == <<running, rafId, width, height, dpr,
          resizeObserver, fallbackResizeAttached, resizeQueued, container,
          particleCount, particleCountHalf, arrayLen,
          visibilityHandlerAttached, autoPausedByVisibility,
          frameTimeAvg, perfCooldownFrames, dprOverride, config, sinceLastTime,
          rafLoop, rafResize, visibilityState, devicePixelRatio, clientSize,
          lastOp, stoppedBy, halted, probe, sample,
          longFrames, reducedTo, destroyed>>

(***************************************************************************)
(* The instance's fields that the geometry and performance code reads and  *)
(* writes, as one record; devicePixelRatio is the host's value it reads.   *)
(***************************************************************************)
Self ==
    [width |-> width, height |-> height, dpr |-> dpr,
     particleCount |-> particleCount, particleCountHalf |-> particleCountHalf,
     arrayLen |-> arrayLen,
     frameTimeAvg |-> frameTimeAvg, perfCooldownFrames |-> perfCooldownFrames,
     dprOverride |-> dprOverride, config |-> config,
     sinceLastTime |-> sinceLastTime,
     devicePixelRatio |-> devicePixelRatio]

Commit(s) ==
    /\ width' = s.width
    /\ height' = s.height
    /\ dpr' = s.dpr
    /\ particleCount' = s.particleCount
    /\ particleCountHalf' = s.particleCountHalf
    /\ arrayLen' = s.arrayLen
    /\ frameTimeAvg' = s.frameTimeAvg
    /\ perfCooldownFrames' = s.perfCooldownFrames
    /\ dprOverride' = s.dprOverride
    /\ config' = s.config
    /\ sinceLastTime' = s.sinceLastTime

(***************************************************************************)
(* Density model.                                                          *)
(***************************************************************************)
\* Math.min(dprCap, override !== null ? Math.min(base, override) : base),
\* base = Math.max(1, window.devicePixelRatio || 1); in eighths
getTargetDpr(s) ==
    LET rawDpr     == IF s.devicePixelRatio = 0 THEN 8 ELSE s.devicePixelRatio
        base       == Max(8, rawDpr)
        overridden == IF s.dprOverride # Null THEN Min(base, s.dprOverride) ELSE base
    IN  Min(s.config.dprCap, overridden)

\* Math.floor(density * width * height * dprFactor) in binary64, for
\* amount >= 0, w > 0, h > 0 and a ratio of scale8 / 8 > 0
Estimated(amount, w, h, scale8) ==
    LET baseArea  == BASE_WIDTH * BASE_HEIGHT
        density   == FloatDivNat(amount, baseArea)
        dprFactor == FloatDivNat(8, scale8)
    IN  FloatFloor(FloatMul(FloatMul(FloatMul(density, FloatOfNat(w)),
                                     FloatOfNat(h)), dprFactor))

\* Estimated on the arguments the specifications below produce, computed once
MemoAmounts == {0, 250, 5000}
MemoWidths == {1, 6, 72, 96, 384, 960, 1920}
MemoHeights == {1, 108, 144, 324, 432, 540, 1080}
MemoScales == {8, 10, 16}
EstimatedMemo ==
    [t \in MemoAmounts \X MemoWidths \X MemoHeights \X MemoScales |->
        Estimated(t[1], t[2], t[3], t[4])] @@ <<>>

estimated(amount, w, h, scale8) ==
    IF <<amount, w, h, scale8>> \in DOMAIN EstimatedMemo
    THEN EstimatedMemo[<<amount, w, h, scale8>>]
    ELSE Estimated(amount, w, h, scale8)

getDensityAdjustedCount(s, w, h) ==
    IF w <= 0 \/ h <= 0 THEN 0
    ELSE Max(0, Min(s.config.maxParticles,
                    estimated(s.config.amount, w, h, getTargetDpr(s))))

(***************************************************************************)
(* Particle store, resize and the configuration mutators.  Numeric         *)
(* arguments of the public methods come in halves (w2 = 2 * width), so     *)
(* that Math.floor is not the identity.  A count in halves is named        *)
(* count2; the instance holds particleCount + particleCountHalf / 2.       *)
(***************************************************************************)
\* this.particleCount, in halves
held2(s) == 2 * s.particleCount + s.particleCountHalf

\* the eight arrays are reallocated when their length differs from count;
\* new Float32Array(count) has the length count truncated to an integer
reseedParticles(s, count2) ==
    [s EXCEPT !.particleCount = count2 \div 2,
              !.particleCountHalf = count2 % 2,
              !.arrayLen = IF 2 * s.arrayLen # count2
                           THEN count2 \div 2
                           ELSE s.arrayLen]

resize(s, w2, h2, nextCount2) ==
    LET normalizedWidth   == Max(1, w2 \div 2)
        normalizedHeight  == Max(1, h2 \div 2)
        targetDpr         == getTargetDpr(s)
        count2            == IF nextCount2 # Undefined THEN nextCount2 ELSE held2(s)
        dimensionsChanged == \/ normalizedWidth # s.width
                             \/ normalizedHeight # s.height
                             \/ targetDpr # s.dpr
        sized             == [s EXCEPT !.width = normalizedWidth,
                                       !.height = normalizedHeight,
                                       !.dpr = targetDpr]
    IN  IF count2 > 0 /\ (dimensionsChanged \/ count2 # held2(s))
        THEN reseedParticles(sized, count2)
        ELSE sized

\* cw, ch: clientWidth and clientHeight of the container (or the window's
\* innerWidth and innerHeight), integers
resizeToContainer(s, cw, ch) ==
    resize(s, 2 * cw, 2 * ch, 2 * getDensityAdjustedCount(s, cw, ch))

\* setAmount rounding the amount up instead of down
setAmountCeil(s, a2) ==
    LET next    == Max(0, (a2 + 1) \div 2)
        updated == [s EXCEPT !.config.amount = next]
    IN  reseedParticles(updated,
                        2 * getDensityAdjustedCount(updated, s.width, s.height))

setAmount(s, a2) ==
    LET next    == Max(0, a2 \div 2)
        updated == [s EXCEPT !.config.amount = next]
    IN  reseedParticles(updated,
                        2 * getDensityAdjustedCount(updated, s.width, s.height))

setMaxParticles(s, m2) ==
    LET capped  == Max(0, m2 \div 2)
        updated == [s EXCEPT !.config.maxParticles = capped]
    IN  reseedParticles(updated,
                        2 * getDensityAdjustedCount(updated, s.width, s.height))

(***************************************************************************)
(* Adaptive performance controller and the loop body.                      *)
(***************************************************************************)
\* Math.max(1, Math.min(this.dpr, 1.25))
loweredDpr(s) == Max(8, Min(s.dpr, 10))

\* loweredDpr < (this.dprOverride ?? this.dpr)
needsDprReduce(s) ==
    loweredDpr(s) < (IF s.dprOverride # Null THEN s.dprOverride ELSE s.dpr)

\* the override assigned on every evaluation, cleared when no reduction is due
nextOverrideOrNone(s) == IF needsDprReduce(s) THEN loweredDpr(s) ELSE Null

\* if (needsDprReduce) this.dprOverride = loweredDpr
nextOverride(s) == IF needsDprReduce(s) THEN loweredDpr(s) ELSE s.dprOverride

\* the downgrade proper: the body of the branch for a slow average
adjust(s) ==
    LET reducedCount     == Max(MIN_REDUCED_COUNT, (held2(s) * 3) \div 8)
        needsCountReduce == 2 * reducedCount < held2(s)
        lowered          == [s EXCEPT !.dprOverride = nextOverride(s)]
    IN  IF needsDprReduce(s) \/ needsCountReduce
        THEN LET cooling   == [lowered EXCEPT !.perfCooldownFrames = PERF_COOLDOWN]
                 nextCount == Min(reducedCount,
                                  getDensityAdjustedCount(cooling, s.width, s.height))
             IN  resize(cooling, 2 * s.width, 2 * s.height, 2 * nextCount)
        ELSE lowered

\* maybeAdjustPerformance without the return that ends a cooldown frame
maybeAdjustPerformanceNoReturn(s) ==
    LET counted == IF s.perfCooldownFrames > 0
                   THEN [s EXCEPT !.perfCooldownFrames = s.perfCooldownFrames - 1]
                   ELSE s
    IN  IF counted.frameTimeAvg > SLOW_FRAME_MS * AvgUnitsPerMs
        THEN adjust(counted)
        ELSE counted

maybeAdjustPerformance(s) ==
    IF s.perfCooldownFrames > 0
    THEN [s EXCEPT !.perfCooldownFrames = s.perfCooldownFrames - 1]
    ELSE IF s.frameTimeAvg > SLOW_FRAME_MS * AvgUnitsPerMs
    THEN adjust(s)
    ELSE s

(***************************************************************************)
(* The simulation step on one particle.  Positions and sizes are in        *)
(* thousandths of a pixel, phases in millionths of a radian, fall speeds   *)
(* in pixels per second, swing speeds in thousandths of a radian per       *)
(* second and time steps in milliseconds, so that every product of the     *)
(* step is an integer; the rounding of a Float32Array store is below this  *)
(* grid and is not followed.  posX is kept as the expression the code      *)
(* assigns: base + amp * fastSin(phase).                                   *)
(***************************************************************************)
TWO_PI == 6283185

\* Math.random(), in halves
MathRandom == {0, 1}

rand(lo, hi, r) == lo + (r * (hi - lo)) \div 2

plain(x) == [base |-> x, amp |-> 0, phase |-> 0]

seedParticle(s, d) ==
    LET x == rand(0, s.width * 1000, d.x)
    IN  [originX |-> x,
         posX |-> plain(x),
         posY |-> rand(-(s.height * 1000), 0, d.y),
         dx |-> rand(0, TWO_PI, d.ph),
         velX |-> rand(s.config.swingSpeed[1], s.config.swingSpeed[2], d.vx),
         velY |-> rand(s.config.fallSpeed[1], s.config.fallSpeed[2], d.vy),
         size |-> rand(s.config.size[1], s.config.size[2], d.sz),
         amplitude |-> 1000 * rand(s.config.amplitude[1],
                                   s.config.amplitude[2], d.am)]

resetTop(s, p, d) ==
    LET x == rand(0, s.width * 1000, d.x)
    IN  [p EXCEPT !.posY = -p.size,
                  !.posX = plain(x),
                  !.originX = x,
                  !.dx = rand(0, TWO_PI, d.ph)]

\* the time step of a frame, without the ceiling
dtUnclamped(frameMs) == frameMs

\* the time step of a frame
dt(frameMs) == Min(50, frameMs)

\* the recycle test without the particle's size
recyclesAtEdge(s, p) == p.posY > s.height * 1000

\* the recycle test of a step
recycles(s, p) == p.posY - p.size > s.height * 1000

\* the body of update's loop for one particle
update(s, p, step, d) ==
    LET turned == p.dx + p.velX * step
        wrapped == IF turned > TWO_PI THEN turned - TWO_PI ELSE turned
        moved == [p EXCEPT !.posY = p.posY + p.velY * step,
                           !.dx = wrapped,
                           !.posX = [base |-> p.originX, amp |-> p.amplitude,
                                     phase |-> wrapped]]
    IN  IF recycles(s, moved) THEN resetTop(s, moved, d) ELSE moved

SeedDraws ==
    [x : MathRandom, y : MathRandom, ph : MathRandom, vx : MathRandom,
     vy : MathRandom, sz : MathRandom, am : MathRandom]
ResetDraws == [x : MathRandom, ph : MathRandom]

\* frameTimeAvg * 0.9 + frameMs * 0.1, to the nearest unit
smoothed(avg, frameMs) == (9 * avg + frameMs * AvgUnitsPerMs + 5) \div 10

\* the body of loop(t) once running is known to hold, frameMs = t - lastTime,
\* for the fields of the instance: lastTime = t, the average, the controller;
\* clear, update and draw move the particles and paint, and change none of
\* these fields
loopBody(s, frameMs) ==
    maybeAdjustPerformance([s EXCEPT !.sinceLastTime = 0,
                                     !.frameTimeAvg = smoothed(s.frameTimeAvg, frameMs)])

(***************************************************************************)
(* Scheduling with the host.  rafLoop holds the handles of the loop        *)
(* callbacks requestAnimationFrame has pending; rafResize counts the       *)
(* pending callbacks of queueResize, whose handles the code drops.         *)
(***************************************************************************)
FreeRafIds(pending) == RafIds \ (pending \cup {rafId})

\* this.rafId = requestAnimationFrame(this.loop), with `pending` the loop
\* callbacks still pending when it is called
requestLoopFrame(pending) ==
    /\ FreeRafIds(pending) # {}
    /\ LET id == CHOOSE i \in FreeRafIds(pending) :
                     \A j \in FreeRafIds(pending) : i <= j
       IN  /\ rafId' = id
           /\ rafLoop' = pending \cup {id}

geometry == <<width, height, dpr, particleCount, particleCountHalf, arrayLen,
              frameTimeAvg,
              perfCooldownFrames, dprOverride, config, sinceLastTime>>
watchers == <<resizeObserver, fallbackResizeAttached, visibilityHandlerAttached,
              container>>
host == <<visibilityState, devicePixelRatio, clientSize>>

\* loop(t) past its guard, with frameMs = t - this.lastTime
loop(frameMs, pending) ==
    /\ Commit(loopBody(Self, frameMs))
    /\ requestLoopFrame(pending)
    /\ IF sample = <<>>
       THEN UNCHANGED sample
       ELSE \E d \in ResetDraws :
                sample' = <<update(Self, sample[1], dt(frameMs), d)>>

\* start() without its guard on this.running
startUnguarded ==
    /\ running' = TRUE
    /\ loop(0, rafLoop)

\* start() that leaves lastTime as it was, so that its tick sees the time
\* since the last one
startStaleTime ==
    IF running
    THEN UNCHANGED <<running, rafId, rafLoop, geometry, sample>>
    ELSE /\ running' = TRUE
         /\ loop(sinceLastTime, rafLoop)

\* start(): lastTime = performance.now(), then loop(lastTime) synchronously,
\* whose t - lastTime is 0
start ==
    IF running
    THEN UNCHANGED <<running, rafId, rafLoop, geometry, sample>>
    ELSE /\ running' = TRUE
         /\ loop(0, rafLoop)

\* stop() returning early when the loop is running
stopOnlyWhenStopped ==
    IF running
    THEN UNCHANGED <<running, rafId, rafLoop>>
    ELSE /\ running' = FALSE
         /\ rafLoop' = IF rafId # Null THEN rafLoop \ {rafId} ELSE rafLoop
         /\ rafId' = Null

\* stop()
stop ==
    /\ running' = FALSE
    /\ rafLoop' = IF rafId # Null THEN rafLoop \ {rafId} ELSE rafLoop
    /\ rafId' = Null

\* queueResize()
queueResize ==
    IF resizeQueued
    THEN UNCHANGED <<resizeQueued, rafResize>>
    ELSE /\ resizeQueued' = TRUE
         /\ rafResize' = rafResize + 1

\* what resizeToContainer reads: the container's client size, or the
\* window's inner size when there is no container
WindowSize == <<1920, 1080>>
TargetSize == IF container THEN clientSize ELSE WindowSize

\* the last call or event, its arguments, and whether the loop ran before it
Op(name, args) == [op |-> name, arg |-> args, ran |-> running]

\* the history a step leaves
Track(long, reduced, gone) ==
    /\ longFrames' = long
    /\ reducedTo' = reduced
    /\ destroyed' = gone

Untracked == Track(longFrames, reducedTo, destroyed)

\* the frames longer than the seeded average, this one included
LongFramesWith(frameMs) ==
    IF frameMs > SEED_FRAME_MS THEN Min(2, longFrames + 1) ELSE longFrames

\* the count the controller has reduced to, after a step that may hold a tick
ReducedAfterTick ==
    IF /\ perfCooldownFrames = 0
       /\ perfCooldownFrames' = PERF_COOLDOWN
       /\ particleCount' < particleCount
    THEN particleCount'
    ELSE reducedTo

(***************************************************************************)
(* The public methods.                                                     *)
(***************************************************************************)
\* init(): ensureDefaultStyles only touches the document's style sheets
InitCall ==
    /\ Commit(resizeToContainer(Self, TargetSize[1], TargetSize[2]))
    /\ IF container
       THEN /\ resizeObserver' = TRUE
            /\ UNCHANGED fallbackResizeAttached
       ELSE /\ fallbackResizeAttached' = TRUE
            /\ UNCHANGED resizeObserver
    /\ visibilityHandlerAttached' = TRUE
    /\ lastOp' = Op("init", <<>>)
    /\ UNCHANGED <<running, rafId, rafLoop, resizeQueued, rafResize, container,
                   autoPausedByVisibility, host, stoppedBy, halted, sample, probe>>
    /\ Track(longFrames, Null, FALSE)

Start ==
    /\ start
    /\ halted' = FALSE
    /\ lastOp' = Op("start", <<sinceLastTime>>)
    /\ UNCHANGED <<watchers, resizeQueued, rafResize, autoPausedByVisibility,
                   host, stoppedBy, probe>>
    /\ Track(longFrames, ReducedAfterTick, FALSE)

Stop ==
    /\ stop
    /\ stoppedBy' = IF running /\ ~running' THEN "user" ELSE stoppedBy
    /\ halted' = TRUE
    /\ lastOp' = Op("stop", <<>>)
    /\ UNCHANGED <<geometry, watchers, resizeQueued, rafResize,
                   autoPausedByVisibility, host, sample, probe>>
    /\ Track(longFrames, reducedTo, FALSE)

Destroy ==
    /\ stop
    /\ resizeObserver' = FALSE
    /\ fallbackResizeAttached' = FALSE
    /\ visibilityHandlerAttached' = FALSE
    /\ container' = FALSE
    /\ stoppedBy' = IF running /\ ~running' THEN "user" ELSE stoppedBy
    /\ halted' = TRUE
    /\ lastOp' = Op("destroy", <<>>)
    /\ UNCHANGED <<geometry, resizeQueued, rafResize, autoPausedByVisibility,
                   host, sample, probe>>
    /\ Track(longFrames, reducedTo, TRUE)

Resize(w2, h2, nextCount2) ==
    /\ Commit(resize(Self, w2, h2, nextCount2))
    /\ lastOp' = Op("resize", <<w2, h2, nextCount2>>)
    /\ UNCHANGED <<running, rafId, rafLoop, watchers, resizeQueued, rafResize,
                   autoPausedByVisibility, host, stoppedBy, halted, sample, probe>>
    /\ Track(longFrames, Null, FALSE)

SetAmount(a2) ==
    /\ Commit(setAmount(Self, a2))
    /\ lastOp' = Op("setAmount", <<a2>>)
    /\ UNCHANGED <<running, rafId, rafLoop, watchers, resizeQueued, rafResize,
                   autoPausedByVisibility, host, stoppedBy, halted, sample, probe>>
    /\ Track(longFrames, Null, FALSE)

SetMaxParticles(m2) ==
    /\ Commit(setMaxParticles(Self, m2))
    /\ lastOp' = Op("setMaxParticles", <<m2>>)
    /\ UNCHANGED <<running, rafId, rafLoop, watchers, resizeQueued, rafResize,
                   autoPausedByVisibility, host, stoppedBy, halted, sample, probe>>
    /\ Track(longFrames, Null, FALSE)

(***************************************************************************)
(* Callbacks and events of the host.                                       *)
(***************************************************************************)
\* the host runs a pending loop callback, frameMs after lastTime
LoopCallback(id, frameMs) ==
    /\ id \in rafLoop
    /\ IF running
       THEN /\ loop(frameMs, rafLoop \ {id})
            /\ lastOp' = Op("tick", <<>>)
            /\ Track(LongFramesWith(frameMs), ReducedAfterTick, destroyed)
       ELSE /\ rafLoop' = rafLoop \ {id}
            /\ lastOp' = Op("tickSkipped", <<>>)
            /\ UNCHANGED <<rafId, geometry, sample>>
            /\ Untracked
    /\ UNCHANGED <<running, watchers, resizeQueued, rafResize,
                   autoPausedByVisibility, host, stoppedBy, halted, probe>>

\* the container takes a size (the observer also reports the size it has
\* when observation starts); the ResizeObserver callback is queueResize
ContainerResized(size) ==
    /\ container
    /\ clientSize' = size
    /\ IF resizeObserver THEN queueResize ELSE UNCHANGED <<resizeQueued, rafResize>>
    /\ lastOp' = Op("containerResized", size)
    /\ UNCHANGED <<running, rafId, rafLoop, geometry, watchers,
                   autoPausedByVisibility, visibilityState, devicePixelRatio,
                   stoppedBy, halted, sample, probe>>
    /\ Track(longFrames, IF size = clientSize THEN reducedTo ELSE Null, destroyed)

\* the window's resize event, delivered to the fallback listener
WindowResized ==
    /\ fallbackResizeAttached
    /\ queueResize
    /\ lastOp' = Op("windowResized", <<>>)
    /\ UNCHANGED <<running, rafId, rafLoop, geometry, watchers,
                   autoPausedByVisibility, host, stoppedBy, halted, sample, probe>>
    /\ Track(longFrames, Null, destroyed)

\* the host runs the callback queueResize scheduled
ResizeCallback ==
    /\ rafResize > 0
    /\ rafResize' = rafResize - 1
    /\ resizeQueued' = FALSE
    /\ Commit(resizeToContainer(Self, TargetSize[1], TargetSize[2]))
    /\ lastOp' = Op("recompute", <<>>)
    /\ UNCHANGED <<running, rafId, rafLoop, watchers, autoPausedByVisibility,
                   host, stoppedBy, halted, sample, probe>>
    /\ Untracked

\* visibilitychange to hidden, and handleVisibilityChange if it is attached
Hide ==
    /\ visibilityState = "visible"
    /\ visibilityState' = "hidden"
    /\ IF visibilityHandlerAttached /\ running
       THEN /\ autoPausedByVisibility' = TRUE
            /\ stop
            /\ stoppedBy' = IF ~running' THEN "visibility" ELSE stoppedBy
            /\ halted' = TRUE
       ELSE UNCHANGED <<autoPausedByVisibility, running, rafId, rafLoop, stoppedBy,
                        halted>>
    /\ lastOp' = Op("hide", <<>>)
    /\ UNCHANGED <<geometry, watchers, resizeQueued, rafResize,
                   devicePixelRatio, clientSize, sample, probe>>
    /\ Untracked

\* visibilitychange to visible
Show ==
    /\ visibilityState = "hidden"
    /\ visibilityState' = "visible"
    /\ IF visibilityHandlerAttached /\ autoPausedByVisibility
       THEN /\ autoPausedByVisibility' = FALSE
            /\ start
            /\ halted' = FALSE
       ELSE UNCHANGED <<autoPausedByVisibility, running, rafId, rafLoop, geometry,
                        halted, sample>>
    /\ lastOp' = Op("show", <<>>)
    /\ UNCHANGED <<watchers, resizeQueued, rafResize, devicePixelRatio,
                   clientSize, stoppedBy, probe>>
    /\ Track(longFrames, ReducedAfterTick, destroyed)

\* the window moves to a screen of another pixel ratio, or the page is zoomed
DprChanged(raw) ==
    /\ raw # devicePixelRatio
    /\ devicePixelRatio' = raw
    /\ lastOp' = Op("dprChanged", <<>>)
    /\ UNCHANGED <<running, rafId, rafLoop, geometry, watchers, resizeQueued,
                   rafResize, autoPausedByVisibility, visibilityState, clientSize,
                   stoppedBy, halted, sample, probe>>
    /\ Track(longFrames, Null, destroyed)

(***************************************************************************)
(* The state after construction, for a given configuration and host.       *)
(***************************************************************************)
\* defaultConfig, the fields the model follows: sizes in thousandths of a
\* pixel, swing speeds in thousandths of a radian per second, fall speeds
\* and amplitudes in pixels (per second)
defaultConfig ==
    [amount |-> 5000, maxParticles |-> 4000, dprCap |-> 16,
     size |-> <<500, 1500>>, swingSpeed |-> <<100, 1000>>,
     fallSpeed |-> <<40, 100>>, amplitude |-> <<25, 50>>]

Constructed(cfg, raw, size) ==
    /\ running = FALSE
    /\ rafId = Null
    /\ width = 0
    /\ height = 0
    /\ dpr = 8
    /\ resizeObserver = FALSE
    /\ fallbackResizeAttached = FALSE
    /\ resizeQueued = FALSE
    /\ container = TRUE
    /\ particleCount = 0
    /\ particleCountHalf = 0
    /\ arrayLen = 0
    /\ visibilityHandlerAttached = FALSE
    /\ autoPausedByVisibility = FALSE
    /\ frameTimeAvg = SEED_FRAME_MS * AvgUnitsPerMs
    /\ perfCooldownFrames = 0
    /\ dprOverride = Null
    /\ config = cfg
    /\ sinceLastTime = 0
    /\ rafLoop = {}
    /\ rafResize = 0
    /\ visibilityState = "visible"
    /\ devicePixelRatio = raw
    /\ clientSize = size
    /\ lastOp = Op("new", <<>>)
    /\ stoppedBy = "none"
    /\ halted = FALSE
    /\ probe = <<>>
    /\ sample = <<>>
    /\ longFrames = 0
    /\ reducedTo = Null
    /\ destroyed = FALSE

(***************************************************************************)
(* Spec: the lifecycle.  One container that takes two sizes, a steady      *)
(* frame time, every public lifecycle method and every host event.         *)
(***************************************************************************)
SteadyFrameMs == 16
LifecycleSizes == {<<96, 108>>, <<72, 144>>}

Init == Constructed(defaultConfig, 8, <<96, 108>>)

Next ==
    \/ InitCall
    \/ Start
    \/ Stop
    \/ Destroy
    \/ Hide
    \/ Show
    \/ \E id \in RafIds : LoopCallback(id, SteadyFrameMs)
    \/ \E size \in LifecycleSizes : ContainerResized(size)
    \/ WindowResized
    \/ ResizeCallback

Spec == Init /\ [][Next]_vars

(***************************************************************************)
(* Lifecycle properties.                                                   *)
(***************************************************************************)
instance == <<running, rafId, width, height, dpr,
              resizeObserver, fallbackResizeAttached, resizeQueued, container,
              particleCount, particleCountHalf, arrayLen,
              visibilityHandlerAttached, autoPausedByVisibility,
              frameTimeAvg, perfCooldownFrames, dprOverride, config,
              sinceLastTime>>

\* C1: the host has exactly one loop callback pending while the instance
\* runs and none while it is stopped; start() on a running instance and
\* stop() on a stopped one change no field and schedule or cancel nothing.
C1_OneTickSource ==
    /\ [](Cardinality(rafLoop) = IF running THEN 1 ELSE 0)
    /\ [][(\/ lastOp'.op = "start" /\ running
           \/ lastOp'.op = "stop" /\ ~running)
          => UNCHANGED <<instance, rafLoop, rafResize>>]_vars

\* start() was called on a running instance, which still has one callback
C1_Witness ==
    /\ lastOp.op = "start"
    /\ lastOp.ran
    /\ running
    /\ Cardinality(rafLoop) = 1

\* C2: between a stop() and the next start() no loop tick runs, also when
\* a callback was pending at the time of the stop().
C2_NoTickAfterStop == [][lastOp'.op = "tick" => ~halted]_vars

\* stop() was called while a callback was pending, and withdrew it
C2_Witness ==
    /\ lastOp.op = "stop"
    /\ lastOp.ran
    /\ halted
    /\ rafLoop = {}

\* C3: after the page becomes visible the loop runs only if the watcher made
\* the last running-to-stopped transition; after an explicit stop() it stays
\* stopped.
C3_ResumeOnlyOwnPause ==
    [][lastOp'.op = "show" /\ ~running /\ running' => stoppedBy = "visibility"]_vars

(***************************************************************************)
(* SpecConfig: geometry and configuration.  The container takes valid and  *)
(* empty sizes, the public resize and the two mutators are called with     *)
(* whole and fractional arguments, the pixel ratio of the screen changes,  *)
(* and the loop ticks at a steady frame time.                              *)
(***************************************************************************)
ConfigSizes == {<<96, 108>>, <<72, 144>>, <<0, 0>>}
ConfigRatios == {8, 16}
\* arguments in halves: 96.5 x 108 and 0 x 108, counts omitted, 0, 2.5
\* and 5000
ResizeWidths == {193, 0}
ResizeHeights == {216}
ResizeCounts == {Undefined, 0, 5, 10000}
\* -1.5, 250.5 and 5000
Amounts == {-3, 501, 10000}
\* -0.5, 10.5 and 4000
MaxParticles == {-1, 21, 8000}

NextConfig ==
    \/ InitCall
    \/ \E w2 \in ResizeWidths, h2 \in ResizeHeights, nextCount2 \in ResizeCounts :
           Resize(w2, h2, nextCount2)
    \/ \E a2 \in Amounts : SetAmount(a2)
    \/ \E m2 \in MaxParticles : SetMaxParticles(m2)
    \/ \E size \in ConfigSizes : ContainerResized(size)
    \/ ResizeCallback
    \/ \E raw \in ConfigRatios : DprChanged(raw)
    \/ Start
    \/ \E id \in RafIds : LoopCallback(id, SteadyFrameMs)

SpecConfig == Init /\ [][NextConfig]_vars

\* the target count of the surface a size recompute reads
TargetCountHere == getDensityAdjustedCount(Self, TargetSize[1], TargetSize[2])

\* C4: the particle count never exceeds config.maxParticles.
C4_CountWithinCap == particleCount <= config.maxParticles

\* C5: after init() or a resize-watcher recompute the particle count is the
\* target count of the container's size (0 for an empty container).
C5_RecomputeSetsTarget ==
    lastOp.op \in {"init", "recompute"} => particleCount = TargetCountHere

\* C15: the eight particle arrays have one length, the particle count, in
\* every state (the model keeps the one length all eight are given)
C15_StoreLength == particleCountHalf = 0 /\ arrayLen = particleCount

(***************************************************************************)
(* SpecPerf: the performance controller.  A 384 x 324 container on a       *)
(* screen of pixel ratio 2, frames that are fast or slow, and between the  *)
(* ticks a resize to the container, a configuration mutator and a change   *)
(* of the screen's pixel ratio.                                            *)
(***************************************************************************)
PerfFrameMs == {16, 30}
PerfRatios == {8, 16}
PerfAmounts == {10000}

InitPerf == Constructed(defaultConfig, 16, <<384, 324>>)

NextPerf ==
    \/ InitCall
    \/ Start
    \/ \E id \in RafIds, frameMs \in PerfFrameMs : LoopCallback(id, frameMs)
    \/ \E raw \in PerfRatios : DprChanged(raw)
    \/ \E a2 \in PerfAmounts : SetAmount(a2)

SpecPerf == InitPerf /\ [][NextPerf]_vars

\* an absent override ranks above every value
OverrideRank(o) == IF o = Null THEN 1000 ELSE o

\* C7: the override never increases: once set it is never cleared and each
\* later value is at most the one before.
C7_ScaleRatchet == [][OverrideRank(dprOverride') <= OverrideRank(dprOverride)]_vars

\* the override was lowered to 1.25 and then, on a screen of ratio 1, to 1
C7_Witness ==
    /\ dprOverride = 8
    /\ lastOp.op = "tick"
    /\ perfCooldownFrames = PERF_COOLDOWN

\* C8: a downgrade starts a cooldown of 90 frames; a tick during the
\* cooldown only counts it down by one, whatever its frame time, changing
\* neither the override nor the particle count, so the controller evaluates
\* again only after 90 ticks.
C8_Cooldown ==
    [][lastOp'.op = "tick" =>
         /\ perfCooldownFrames > 0 =>
              /\ perfCooldownFrames' = perfCooldownFrames - 1
              /\ UNCHANGED <<dprOverride, particleCount, dpr>>
         /\ dprOverride' # dprOverride \/ particleCount' # particleCount =>
              perfCooldownFrames' = 90]_vars

\* the 90th tick after a downgrade: the cooldown has run out
C8_Witness ==
    /\ lastOp.op = "tick"
    /\ perfCooldownFrames = 0
    /\ dprOverride # Null

(***************************************************************************)
(* SpecMutators: the two configuration mutators, called with whole and     *)
(* fractional arguments before and after init(), while the loop ticks      *)
(* slowly enough for the controller to downgrade and cool down.            *)
(***************************************************************************)
SlowFrameMs == {30}

NextMutators ==
    \/ InitCall
    \/ Start
    \/ \E id \in RafIds, frameMs \in SlowFrameMs : LoopCallback(id, frameMs)
    \/ \E a2 \in Amounts : SetAmount(a2)
    \/ \E m2 \in MaxParticles : SetMaxParticles(m2)

SpecMutators == InitPerf /\ [][NextMutators]_vars

\* C6: setAmount(a) stores max(0, floor(a)) as amount and setMaxParticles(m)
\* stores max(0, floor(m)) as maxParticles; nothing else of the
\* configuration, the override, the cooldown, the dimensions or the running
\* flag changes, and the particle count becomes the target count of the
\* current dimensions under the new configuration.
C6_Mutators ==
    [][/\ lastOp'.op = "setAmount" =>
            config' = [config EXCEPT !.amount = Max(0, lastOp'.arg[1] \div 2)]
       /\ lastOp'.op = "setMaxParticles" =>
            config' = [config EXCEPT !.maxParticles = Max(0, lastOp'.arg[1] \div 2)]
       /\ lastOp'.op \in {"setAmount", "setMaxParticles"} =>
            /\ UNCHANGED <<dprOverride, perfCooldownFrames, width, height, running>>
            /\ particleCount' = getDensityAdjustedCount(Self', width, height)]_vars

\* setAmount(250.5) on a sized surface, after a downgrade and within its
\* cooldown
C6_Witness ==
    /\ lastOp.op = "setAmount"
    /\ lastOp.arg = <<501>>
    /\ config.amount = 250
    /\ width = 384
    /\ dprOverride # Null
    /\ perfCooldownFrames > 0
    /\ particleCount \in 1..20

(***************************************************************************)
(* SpecDensity: the target count as a function.  The instance is           *)
(* constructed with one of several configurations on one of several        *)
(* screens; the target count is taken for one surface after another, and   *)
(* the last two results are kept for comparison.                           *)
(***************************************************************************)
DensityConfigs ==
    {[defaultConfig EXCEPT !.amount = a, !.maxParticles = cap] :
        a \in {250, 5000}, cap \in {10, 4000}}
DensityRatios == {8, 10, 16}
DensitySurfaces ==
    {<<1920, 1080>>, <<960, 540>>, <<96, 108>>, <<72, 144>>, <<6, 432>>,
     <<0, 108>>, <<96, -1>>}
MaxProbes == 2

\* getDensityAdjustedCount(w, h) is evaluated; nothing is written
Measure(w, h) ==
    /\ probe' = SubSeq(probe, Max(1, Len(probe) + 2 - MaxProbes), Len(probe))
                \o <<[w |-> w, h |-> h, scale |-> getTargetDpr(Self),
                      count |-> getDensityAdjustedCount(Self, w, h)]>>
    /\ lastOp' = Op("measure", <<w, h>>)
    /\ UNCHANGED <<running, rafId, rafLoop, geometry, watchers, resizeQueued,
                   rafResize, autoPausedByVisibility, host, stoppedBy, halted, sample>>
    /\ Untracked

InitDensity ==
    \E cfg \in DensityConfigs, raw \in DensityRatios :
        Constructed(cfg, raw, <<96, 108>>)

NextDensity ==
    \/ \E surface \in DensitySurfaces : Measure(surface[1], surface[2])
    \/ \E raw \in DensityRatios : DprChanged(raw)

SpecDensity == InitDensity /\ [][NextDensity]_vars

\* the quotient of a limb vector by a divisor below 2^21, limb by limb
LimbsDivSmall(a, d) ==
    LET rem[i \in 1..(WideLimbs + 1)] ==
            IF i = WideLimbs + 1 THEN 0 ELSE (rem[i + 1] * LimbBase + a[i]) % d
    IN  [i \in 1..WideLimbs |-> (rem[i + 1] * LimbBase + a[i]) \div d]

\* floor(amount / (1920 * 1080) * w * h / scale) in exact arithmetic, for
\* the scale in eighths: floor(8 * amount * w * h / (2^10 * 2025 * scale8))
ExactEstimate(amount, w, h, scale8) ==
    LET product == LimbsMul(LimbsMul(NatLimbs(8 * amount), NatLimbs(w)), NatLimbs(h))
    IN  LimbsNat(LimbsDivSmall(LimbsShr(product, LimbBits),
                               ((BASE_WIDTH * BASE_HEIGHT) \div LimbBase) * scale8))

\* clamp(floor(amount / (1920 * 1080) * w * h / scale), 0, maxParticles)
ExactTarget(cfg, w, h, scale8) ==
    IF w <= 0 \/ h <= 0 THEN 0
    ELSE Max(0, Min(cfg.maxParticles, ExactEstimate(cfg.amount, w, h, scale8)))

\* C9: the target count is
\* clamp(floor(amount / (1920 * 1080) * width * height / scale), 0, maxParticles),
\* and 0 for a surface of no width or no height.
C9_TargetFormula ==
    \A i \in DOMAIN probe :
        probe[i].count = ExactTarget(config, probe[i].w, probe[i].h, probe[i].scale)

\* C10: for one configuration the target count does not decrease as the
\* surface area grows and does not increase as the scale grows.
C10_Monotone ==
    \A i, j \in DOMAIN probe :
        /\ (/\ probe[i].scale = probe[j].scale
            /\ probe[i].w * probe[i].h <= probe[j].w * probe[j].h)
           => probe[i].count <= probe[j].count
        /\ (/\ probe[i].w = probe[j].w
            /\ probe[i].h = probe[j].h
            /\ probe[i].scale <= probe[j].scale)
           => probe[i].count >= probe[j].count

(***************************************************************************)
(* SpecController: the controller and the resize watcher.  A 384 x 324     *)
(* container on a screen of pixel ratio 1 or 2; the container can collapse *)
(* to 0 x 0 and come back, the observer can report without a change of     *)
(* size, and frames are fast or slow.                                      *)
(***************************************************************************)
ControllerSizes == {<<384, 324>>, <<0, 0>>}

InitController ==
    \E raw \in PerfRatios : Constructed(defaultConfig, raw, <<384, 324>>)

NextController ==
    \/ InitCall
    \/ Start
    \/ \E id \in RafIds, frameMs \in PerfFrameMs : LoopCallback(id, frameMs)
    \/ \E size \in ControllerSizes : ContainerResized(size)
    \/ ResizeCallback

SpecController == InitController /\ [][NextController]_vars

\* a tick on which the controller applies a downgrade
Downgrade ==
    /\ lastOp'.op = "tick"
    /\ perfCooldownFrames = 0
    /\ perfCooldownFrames' = PERF_COOLDOWN

\* C11: a downgrade leaves min(max(200, floor(0.75 * count)), target count)
\* particles, the target taken with the override as lowered, and a cooldown
\* of 90 frames.
C11_DowngradeCount ==
    [][Downgrade =>
         /\ particleCount' = Min(Max(200, (particleCount * 3) \div 4),
                                 getDensityAdjustedCount(Self', width, height))
         /\ perfCooldownFrames' = 90]_vars

\* C17: a downgrade never increases the particle count, also when the count
\* was below 200 and only the scale override was lowered
C17_NoIncrease == [][Downgrade => particleCount' <= particleCount]_vars

\* C18: once the controller has reduced the particle count, and while the
\* configuration, the screen's scale and the container's size stay as they
\* were, no recompute of the resize watcher and no tick raises the count
\* above the reduced value
C18_NoRecovery == reducedTo # Null => particleCount <= reducedTo

\* C19: after destroy() has returned, and until the next call of a public
\* method, no callback scheduled earlier changes the surface's dimensions,
\* the particle store, the particle count or the running flag
C19_DeadAfterDestroy ==
    [][destroyed /\ destroyed'
         => UNCHANGED <<running, width, height, dpr, particleCount,
                        particleCountHalf, arrayLen>>]_vars

(***************************************************************************)
(* SpecStall: slow frames without end, with the host's scheduling: a       *)
(* pending loop callback is run in the end.  A 384 x 324 container that    *)
(* may collapse, on a screen of pixel ratio 1.                             *)
(***************************************************************************)
InitStall == Constructed(defaultConfig, 8, <<384, 324>>)

NextStall ==
    \/ InitCall
    \/ Start
    \/ \E id \in RafIds, frameMs \in SlowFrameMs : LoopCallback(id, frameMs)
    \/ \E size \in ControllerSizes : ContainerResized(size)
    \/ ResizeCallback

SpecStall ==
    /\ InitStall
    /\ [][NextStall]_vars
    /\ WF_vars(\E id \in RafIds, frameMs \in SlowFrameMs : LoopCallback(id, frameMs))

\* C20: with the surface, the screen's scale and the configuration fixed and
\* no public method called, the controller downgrades only finitely often
\* whatever the frame times: downgrades without end need calls or events
\* other than ticks without end
C20_FinitelyManyDowngrades ==
    []<><<Downgrade>>_vars => []<><<lastOp'.op # "tick">>_vars

(***************************************************************************)
(* SpecParticles: the simulation step on one particle of the store, for    *)
(* the default configuration and two with other swing and fall speeds.     *)
(***************************************************************************)
\* reseedParticles' loop reaches the particle; the store is seeded once,
\* since a second init() finds the surface and the count unchanged
SeedParticle(d) ==
    /\ particleCount > 0
    /\ sample = <<>>
    /\ sample' = <<seedParticle(Self, d)>>
    /\ lastOp' = Op("seed", <<>>)
    /\ UNCHANGED <<running, rafId, rafLoop, geometry, watchers, resizeQueued,
                   rafResize, autoPausedByVisibility, host, stoppedBy, halted,
                   probe>>
    /\ Untracked

\* a frame's update reaches the particle
Advance(frameMs, d) ==
    /\ sample # <<>>
    /\ sample' = <<update(Self, sample[1], dt(frameMs), d)>>
    /\ lastOp' = Op("update", <<frameMs>>)
    /\ UNCHANGED <<running, rafId, rafLoop, geometry, watchers, resizeQueued,
                   rafResize, autoPausedByVisibility, host, stoppedBy, halted,
                   probe>>
    /\ Untracked

FastFall == <<2000, 4000>>
ParticleConfigs ==
    {defaultConfig,
     [defaultConfig EXCEPT !.swingSpeed = <<-1000, 1000>>, !.fallSpeed = FastFall],
     [defaultConfig EXCEPT !.swingSpeed = <<200000, 200000>>,
                           !.fallSpeed = FastFall]}
ParticleFrameMs == {25, 1000}

InitParticles ==
    \E cfg \in ParticleConfigs : Constructed(cfg, 8, <<96, 108>>)

NextParticles ==
    \/ InitCall
    \/ \E d \in SeedDraws : SeedParticle(d)
    \/ \E frameMs \in ParticleFrameMs, d \in ResetDraws : Advance(frameMs, d)

SpecParticles == InitParticles /\ [][NextParticles]_vars

\* C12: after every simulation update the particle's phase lies in [0, 2*pi),
\* whatever swingSpeed range is configured and whatever time step the loop
\* passes
C12_PhaseInRange ==
    lastOp.op = "update" => sample[1].dx \in 0..(TWO_PI - 1)

\* a step of the simulation on the particle
UpdateStep == lastOp'.op = "update" /\ sample # <<>>

\* C13: a particle is recycled exactly when its advanced posY minus its size
\* exceeds the surface height; a recycled particle ends the step at
\* posY = -size with posX = originX a fresh value in [0, width) and a fresh
\* phase; recycled or not it keeps its size, amplitude, swing rate and fall
\* rate, and a particle that is not recycled keeps its originX
C13_Recycle ==
    [][UpdateStep =>
         LET before == sample[1]
             after == sample'[1]
             advanced == before.posY + before.velY * Min(50, lastOp'.arg[1])
         IN  /\ after.size = before.size
             /\ after.amplitude = before.amplitude
             /\ after.velX = before.velX
             /\ after.velY = before.velY
             /\ IF advanced - before.size > height * 1000
                THEN /\ after.posY = -before.size
                     /\ after.originX \in 0..(width * 1000 - 1)
                     /\ after.posX = [base |-> after.originX, amp |-> 0,
                                      phase |-> 0]
                     /\ after.dx \in 0..(TWO_PI - 1)
                ELSE /\ after.posY = advanced
                     /\ after.originX = before.originX
                     /\ after.posX.base = before.originX
                     /\ after.posX.amp = before.amplitude]_vars

\* a step has just recycled the particle, half-way across the surface
C13_Witness ==
    /\ lastOp.op = "update"
    /\ sample[1].posY = -sample[1].size
    /\ sample[1].posX = [base |-> width * 500, amp |-> 0, phase |-> 0]
    /\ sample[1].originX = width * 500

\* C14: however long the frame, the time step of the simulation is at most
\* 0.05 s: no step advances posY by more than fallRate * 0.05
C14_StepCeiling ==
    [][UpdateStep =>
         sample'[1].posY - sample[1].posY <= sample[1].velY * 50]_vars

\* a one-second frame has moved the particle, by 0.05 s of its fall rate,
\* without recycling it
C14_Witness ==
    /\ lastOp.op = "update"
    /\ lastOp.arg = <<1000>>
    /\ sample[1].posX.amp # 0
    /\ sample[1].posY = -(height * 1000) + sample[1].velY * 50

(***************************************************************************)
(* SpecJitter: the controller under frames that are steady or one long     *)
(* stall, on a 384 x 324 container and a screen of pixel ratio 1 or 2.     *)
(***************************************************************************)
JitterFrameMs == {16, 100}

NextJitter ==
    \/ InitCall
    \/ Start
    \/ \E id \in RafIds, frameMs \in JitterFrameMs : LoopCallback(id, frameMs)

SpecJitter == InitController /\ [][NextJitter]_vars

\* C16: from the seeded average of 16 ms and no cooldown, one long frame among
\* frames of at most 16 ms never makes the controller downgrade: when it
\* downgrades, at least two frames have been long
C16_SustainedOnly == [][Downgrade => longFrames' >= 2]_vars

(***************************************************************************)
(* SpecPause: pauses.  Frames arrive steadily while the loop runs; while   *)
(* it is stopped, by stop() or by the visibility watcher, any time may     *)
(* pass.  One particle of a fast snowfall is followed.                     *)
(***************************************************************************)
MaxPauseMs == 1000
PauseMs == {1000}
\* the draws of the particle followed: its height, phase and fall rate vary
PauseDraws ==
    {d \in SeedDraws : d.x = 1 /\ d.vx = 1 /\ d.sz = 0 /\ d.am = 0}

\* time passes while the loop is stopped
TimePasses(ms) ==
    /\ ~running
    /\ sinceLastTime' = Min(MaxPauseMs, sinceLastTime + ms)
    /\ lastOp' = Op("timePasses", <<>>)
    /\ UNCHANGED <<width, height, dpr, particleCount, particleCountHalf, arrayLen,
                   frameTimeAvg, perfCooldownFrames, dprOverride, config,
                   running, rafId, rafLoop, watchers, resizeQueued, rafResize,
                   autoPausedByVisibility, host, stoppedBy, halted, sample, probe>>
    /\ Untracked

\* the host runs a pending loop callback one steady frame from now
Frame(id) == LoopCallback(id, sinceLastTime + SteadyFrameMs)

InitPause ==
    Constructed([defaultConfig EXCEPT !.fallSpeed = FastFall], 8, <<96, 108>>)

NextPause ==
    \/ InitCall
    \/ Start
    \/ Stop
    \/ Hide
    \/ Show
    \/ \E ms \in PauseMs : TimePasses(ms)
    \/ \E id \in RafIds : Frame(id)
    \/ \E d \in PauseDraws : SeedParticle(d)

SpecPause == InitPause /\ [][NextPause]_vars

\* a step that takes the loop from stopped to running: start(), or the
\* visibility watcher's resume
Resumed == ~running /\ running'

====
